---- MODULE Spec2Model ----
(***************************************************************************)
(* The flashcard review path of the learning app:                          *)
(*   - processChat inserts flashcards as NEW rows (flashcard-due/index.ts) *)
(*   - the flashcard-review edge function reads a row, converts it with    *)
(*     dbToCard, asks the ts-fsrs scheduler for the four candidates        *)
(*     (repeat), selects the one for the submitted rating, writes it back  *)
(*     and appends a row to flashcard_reviews.                             *)
(* Each request is a process; its steps are the points where the handler   *)
(* awaits the database, so two requests for one card can interleave.       *)
(*                                                                         *)
(* Units: time is counted in whole days; stability and difficulty are     *)
(* fixed-point numbers in tenths (stability 4 = 0.4 days, difficulty 50 = *)
(* 5.0).                                                                   *)
(***************************************************************************)
EXTENDS Integers, Sequences, FiniteSets, TLC

VARIABLES flashcards, flashcard_reviews, req, now, accepted, due_req, deck,
          flashcard_cron_runs, flashcard_chat_processing, chats, cron

vars == <<flashcards, flashcard_reviews, req, now, accepted, due_req, deck,
          flashcard_cron_runs, flashcard_chat_processing, chats, cron>>

\* the tables and invocations of the flashcard generation cron
cronjob == <<flashcard_cron_runs, flashcard_chat_processing, chats, cron>>

\* the tables, the review invocations and the clock
server == <<flashcards, flashcard_reviews, req, now, accepted>>

(* ------------------------------ bounds --------------------------------- *)
MaxTime == 2
MaxReviews == 2
DeckSize == 2
MaxSent == 2

Cards == {"c1"}
Requests == {"r1", "r2"}
Owner == "u1"
Callers == {"anonymous", "u1", "u2"}
RatingInputs == 1..5
FlashcardIds == Cards

(* --------------------------- ts-fsrs enums ----------------------------- *)
NoDate == -1

StateNew == 0
StateLearning == 1
StateReview == 2
StateRelearning == 3

RatingAgain == 1
RatingHard == 2
RatingGood == 3
RatingEasy == 4
Grades == {RatingAgain, RatingHard, RatingGood, RatingEasy}

NullState == "<null>"

Min(a, b) == IF a < b THEN a ELSE b
Max(a, b) == IF a > b THEN a ELSE b
Clamp(v, lo, hi) == Min(Max(v, lo), hi)

(* ------------------- scheduler parameters (handler) -------------------- *)
(* generatorParameters({...}) of the review handler.                        *)
enable_fuzz == TRUE
enable_short_term_on == TRUE

enable_short_term == FALSE
maximum_interval == 36500
request_retention == 90
\* the weight vector w, scaled by 10^4
w == <<4072, 11829, 31262, 154722, 72102, 5316, 10651, 234, 16160,
       1544, 10824, 19813, 953, 2975, 22042, 2407, 29466, 5034, 6567>>

(* ------------------------- MemoryModel (ts-fsrs) ----------------------- *)
(* The closed forms of the scheduling library in fixed point.  Stability  *)
(* and difficulty are in tenths, retrievability in percent.  exp and pow  *)
(* are replaced by rational approximations that keep the clamps, the      *)
(* monotonicity in the rating and the value 100% at elapsed time 0.       *)
S_MIN == 1
S_MAX == 365000
D_MIN == 10
D_MAX == 100

\* w[0..3]: the stability a new card starts with, by first rating
init_stability(g) == Max((w[g] + 500) \div 1000, S_MIN)

\* exp(w[5] * (g - 1)) in tenths, for g = 1..4
exp_w5(g) == <<10, 17, 29, 49>>[g]

\* w[4] - exp(w[5] * (g - 1)) + 1, clamped to [1, 10]
init_difficulty(g) == Clamp((w[5] + 500) \div 1000 - exp_w5(g) + 10, D_MIN, D_MAX)

linear_damping(delta, d) == (delta * (D_MAX - d)) \div 90

mean_reversion(init, current) == (w[8] * init + (10000 - w[8]) * current) \div 10000

\* delta = -w[6] * (g - 3), damped, then pulled toward init_difficulty(Easy)
next_difficulty(d, g) ==
    LET delta == (0 - w[7] * (g - 3)) \div 1000
        nd    == d + linear_damping(delta, d)
    IN  Clamp(mean_reversion(init_difficulty(RatingEasy), nd), D_MIN, D_MAX)

\* retrievability after t whole days at stability s: 100% at t = 0 and
\* request_retention (90%) at t = s
forgetting_curve(t, s) == (100 * 9 * s) \div (9 * s + 10 * t)

\* hard penalty w[15] and easy bonus w[16], in percent
grade_factor(g) == IF g = RatingHard THEN w[16] \div 100
                   ELSE IF g = RatingEasy THEN w[17] \div 100 ELSE 100

\* successful recall: stability grows, more for lower retrievability and
\* lower difficulty, least for Hard and most for Easy
next_recall_stability(d, s, r, g) ==
    LET growth == (54 * (110 - d) * (100 - r) * grade_factor(g)) \div 10000
    IN  Clamp(s + (s * growth) \div 100, S_MIN, S_MAX)

\* forgetting: the post-lapse stability
next_forget_stability(d, s, r) ==
    Clamp((20 * s * (300 - 2 * r)) \div ((s + 20) * 100), S_MIN, S_MAX)

\* same-day review with short-term mode enabled: exp(w[17] * (g - 3 + w[18])),
\* in percent, not below 100% for Good and Easy
next_short_term_stability(s, g) ==
    Clamp((s * <<51, 84, 139, 230>>[g]) \div 100, S_MIN, S_MAX)

\* next_state of the algorithm: the memory state after grade g
next_s(d, s, r, g) ==
    IF g = RatingAgain
    THEN Min(Max(s, S_MIN), next_forget_stability(d, s, r))
    ELSE next_recall_stability(d, s, r, g)

\* the pseudo-random factor of the fuzz, a function of the seed the library
\* builds from the review time, the repetitions and difficulty * stability:
\* 0 stands for a factor of 0, 1 for one half, 2 for a factor just below 1
fuzz_factor(time, reps, d, s) == (time + reps + d * s) % 3

\* the fuzz range around ivl, in whole days
fuzz_delta(ivl) == 1000 + 15 * Max(Min(ivl, 7) * 10 - 25, 0)
                        + 100 * Max(Min(ivl, 20) - 7, 0)
                        + 50 * Max(ivl - 20, 0)

fuzz_min(ivl, elapsed) ==
    LET lo  == Max(2, (ivl * 1000 - fuzz_delta(ivl) + 500) \div 1000)
        hi  == Min((ivl * 1000 + fuzz_delta(ivl) + 500) \div 1000, maximum_interval)
        lo2 == IF ivl > elapsed THEN Max(lo, elapsed + 1) ELSE lo
    IN  Min(lo2, hi)

fuzz_max(ivl) == Min((ivl * 1000 + fuzz_delta(ivl) + 500) \div 1000, maximum_interval)

\* floor(fuzz_factor * (max_ivl - min_ivl + 1) + min_ivl)
apply_fuzz(ivl, elapsed, k) ==
    IF ~enable_fuzz \/ ivl < 3 THEN ivl
    ELSE LET range == fuzz_max(ivl) - fuzz_min(ivl, elapsed)
         IN  fuzz_min(ivl, elapsed)
               + (IF k = 2 THEN range ELSE (k * (range + 1)) \div 2)

\* the interval at which retrievability reaches request_retention: the
\* stability itself at 90%, in whole days within [1, maximum_interval]
next_interval(s, elapsed, k) ==
    apply_fuzz(Clamp((s + 5) \div 10, 1, maximum_interval), elapsed, k)

(* --------------------------- Scheduler (ts-fsrs) ----------------------- *)
\* createEmptyCard(due)
createEmptyCard(due) ==
    [due |-> due, stability |-> 0, difficulty |-> 0, elapsed_days |-> 0,
     scheduled_days |-> 0, reps |-> 0, lapses |-> 0, state |-> StateNew,
     last_review |-> NoDate, learning_steps |-> 0]

\* whole days between two instants
date_diff_days(t, last) == t - last

\* the card every candidate starts from: the constructor of the scheduler
\* stamps the review time, the elapsed days and one more repetition
scheduler_init(card, t) ==
    [card EXCEPT !.last_review = t,
                 !.elapsed_days = IF card.state # StateNew /\ card.last_review # NoDate
                                  THEN date_diff_days(t, card.last_review) ELSE 0,
                 !.reps = card.reps + 1]

\* the review log of a candidate: the card as it was before the review
buildLog(card, cur, g, t) ==
    [rating |-> g, state |-> card.state, stability |-> card.stability,
     difficulty |-> card.difficulty, elapsed_days |-> cur.elapsed_days,
     scheduled_days |-> cur.scheduled_days, review |-> t]

\* difficulty and stability of the candidate for grade g
candidate_d(card, g) ==
    IF card.state = StateNew THEN init_difficulty(g)
    ELSE next_difficulty(card.difficulty, g)

candidate_s(card, cur, g) ==
    IF card.state = StateNew THEN init_stability(g)
    ELSE IF enable_short_term /\ cur.elapsed_days = 0
    THEN next_short_term_stability(card.stability, g)
    ELSE next_s(card.difficulty, card.stability,
                forgetting_curve(cur.elapsed_days, card.stability), g)

\* the interval of grade g before the four are put in order
raw_interval(card, cur, g, t) ==
    LET el == IF card.state = StateNew THEN 0 ELSE cur.elapsed_days
    IN  next_interval(candidate_s(card, cur, g), el,
                      fuzz_factor(t, cur.reps, card.difficulty, card.stability))

\* LongTermScheduler.next_interval: again <= hard < good < easy
long_interval(card, cur, g, t) ==
    LET again == Min(raw_interval(card, cur, RatingAgain, t),
                     raw_interval(card, cur, RatingHard, t))
        hard  == Max(raw_interval(card, cur, RatingHard, t), again + 1)
        good  == Max(raw_interval(card, cur, RatingGood, t), hard + 1)
        easy  == Max(raw_interval(card, cur, RatingEasy, t), good + 1)
    IN  CASE g = RatingAgain -> again
          [] g = RatingHard  -> hard
          [] g = RatingGood  -> good
          [] OTHER           -> easy

\* LongTermScheduler (enable_short_term = false): the candidate for grade g.
\* Every candidate is in Review, scheduled in whole days; from a state other
\* than New, Again counts a lapse.
long_term_card(card, g, t) ==
    LET cur == scheduler_init(card, t)
        cur0 == IF card.state = StateNew
                THEN [cur EXCEPT !.scheduled_days = 0, !.elapsed_days = 0]
                ELSE cur
        ivl == long_interval(card, cur0, g, t)
    IN  [cur0 EXCEPT !.difficulty = candidate_d(card, g),
                     !.stability = candidate_s(card, cur0, g),
                     !.scheduled_days = ivl,
                     !.due = t + ivl,
                     !.state = StateReview,
                     !.learning_steps = 0,
                     !.lapses = IF card.state # StateNew /\ g = RatingAgain
                                THEN cur0.lapses + 1 ELSE cur0.lapses]

scheduler_log(card, g, t) ==
    LET cur == scheduler_init(card, t)
        cur0 == IF card.state = StateNew
                THEN [cur EXCEPT !.scheduled_days = 0, !.elapsed_days = 0]
                ELSE cur
    IN  buildLog(card, cur0, g, t)

\* the number of sub-day steps: learning 1m and 10m, relearning 10m
steps_of(state) == IF state \in {StateReview, StateRelearning} THEN 1 ELSE 2

\* BasicScheduler.next_interval in Review: hard <= good < easy
basic_interval(card, cur, g, t) ==
    LET hard == Min(raw_interval(card, cur, RatingHard, t),
                    raw_interval(card, cur, RatingGood, t))
        good == Max(raw_interval(card, cur, RatingGood, t), hard + 1)
        easy == Max(raw_interval(card, cur, RatingEasy, t), good + 1)
    IN  CASE g = RatingHard -> hard
          [] g = RatingGood -> good
          [] OTHER          -> easy

\* BasicScheduler (enable_short_term = true): the candidate for grade g.
\* New goes to Learning (Again, Hard, Good) or Review (Easy); Learning and
\* Relearning walk their steps and graduate to Review; Review goes to
\* Relearning on Again, counting a lapse.  A step is shorter than a day:
\* scheduled_days 0, due within the day of the review.
basic_card(card, g, t) ==
    LET cur   == scheduler_init(card, t)
        cur0  == IF card.state = StateNew
                 THEN [cur EXCEPT !.scheduled_days = 0, !.elapsed_days = 0]
                 ELSE cur
        step  == IF g = RatingAgain \/ card.state \in {StateNew, StateReview} THEN 0
                 ELSE IF g = RatingHard THEN cur0.learning_steps
                 ELSE cur0.learning_steps + 1
        stepping == IF card.state = StateReview THEN g = RatingAgain
                    ELSE IF card.state = StateNew THEN g # RatingEasy
                    ELSE g # RatingEasy /\ step < steps_of(card.state)
        ivl   == IF stepping THEN 0
                 ELSE IF card.state = StateReview THEN basic_interval(card, cur0, g, t)
                 ELSE raw_interval(card, cur0, g, t)
    IN  [cur0 EXCEPT !.difficulty = candidate_d(card, g),
                     !.stability = candidate_s(card, cur0, g),
                     !.scheduled_days = ivl,
                     !.due = t + ivl,
                     !.state = IF ~stepping THEN StateReview
                               ELSE IF card.state \in {StateReview, StateRelearning}
                               THEN StateRelearning ELSE StateLearning,
                     !.learning_steps = IF stepping THEN step ELSE 0,
                     !.lapses = IF card.state = StateReview /\ g = RatingAgain
                                THEN cur0.lapses + 1 ELSE cur0.lapses]

\* f.repeat(card, now): the RecordLog, one {card, log} per Rating, from the
\* scheduler the parameters select
repeat(card, t) ==
    [g \in Grades |-> [card |-> IF enable_short_term THEN basic_card(card, g, t)
                                ELSE long_term_card(card, g, t),
                       log  |-> scheduler_log(card, g, t)]]

(* ------------------------- flashcard-review handler -------------------- *)
\* a row of the flashcards table (FSRS columns); exists = FALSE: no such row
NoRow ==
    [exists |-> FALSE, user_id |-> "", state |-> NullState, due |-> NoDate,
     stability |-> 0, difficulty |-> 0, elapsed_days |-> 0, scheduled_days |-> 0,
     reps |-> 0, lapses |-> 0, last_review |-> NoDate, learning_steps |-> 0,
     is_deleted |-> FALSE, created_at |-> NoDate, updated_at |-> NoDate]

\* processChat: the row a generated flashcard is inserted with
newFlashcardRow(user, t) ==
    [exists |-> TRUE, user_id |-> user, state |-> "NEW", due |-> t,
     stability |-> 4, difficulty |-> 50, elapsed_days |-> 0, scheduled_days |-> 0,
     reps |-> 0, lapses |-> 0, last_review |-> NoDate, learning_steps |-> 0,
     is_deleted |-> FALSE, created_at |-> t, updated_at |-> t]

\* a || b on numbers: b when a is 0 or null
OrElse(a, b) == IF a = 0 THEN b ELSE a

\* dbToCard(flashcard), evaluated at instant t (new Date())
dbToCard(flashcard, t) ==
    IF flashcard.state = NullState \/ flashcard.state = "NEW"
    THEN createEmptyCard(IF flashcard.due # NoDate THEN flashcard.due ELSE t)
    ELSE [due |-> IF flashcard.due # NoDate THEN flashcard.due ELSE t,
          stability |-> OrElse(flashcard.stability, 4),
          difficulty |-> OrElse(flashcard.difficulty, 50),
          elapsed_days |-> OrElse(flashcard.elapsed_days, 0),
          scheduled_days |-> OrElse(flashcard.scheduled_days, 0),
          reps |-> OrElse(flashcard.reps, 0),
          lapses |-> OrElse(flashcard.lapses, 0),
          state |-> IF flashcard.state = "NEW" THEN StateNew
                    ELSE IF flashcard.state = "LEARNING" THEN StateLearning
                    ELSE IF flashcard.state = "REVIEW" THEN StateReview
                    ELSE StateRelearning,
          last_review |-> flashcard.last_review,
          learning_steps |-> OrElse(flashcard.learning_steps, 0)]

stateToString_shifted(state) ==
    CASE state = 0 -> "NEW"
      [] state = 1 -> "NEW"
      [] state = 2 -> "LEARNING"
      [] state = 3 -> "REVIEW"
      [] OTHER     -> "NEW"

stateToString(state) ==
    CASE state = 0 -> "NEW"
      [] state = 1 -> "LEARNING"
      [] state = 2 -> "REVIEW"
      [] state = 3 -> "RELEARNING"
      [] OTHER     -> "NEW"

validRating_lax(rating) == rating >= 1

\* [1, 2, 3, 4].includes(rating)
validRating(rating) == rating \in {1, 2, 3, 4}

\* the switch from the request's rating to the Rating enum; 0: the default
\* branch, which throws
tsfsrsRating(rating) ==
    CASE rating = 1 -> RatingAgain
      [] rating = 2 -> RatingHard
      [] rating = 3 -> RatingGood
      [] rating = 4 -> RatingEasy
      [] OTHER      -> 0

updateRow_dueNotWritten(row, updatedCard, t) ==
    [row EXCEPT !.state = stateToString(updatedCard.state),
                !.stability = updatedCard.stability,
                !.difficulty = updatedCard.difficulty,
                !.elapsed_days = updatedCard.elapsed_days,
                !.scheduled_days = updatedCard.scheduled_days,
                !.reps = updatedCard.reps,
                !.lapses = updatedCard.lapses,
                !.last_review = IF updatedCard.last_review = NoDate
                                THEN row.last_review ELSE updatedCard.last_review,
                !.learning_steps = updatedCard.learning_steps,
                !.updated_at = t]

updateRow_memoryNotWritten(row, updatedCard, t) ==
    [row EXCEPT !.state = stateToString(updatedCard.state),
                !.due = updatedCard.due,
                !.elapsed_days = updatedCard.elapsed_days,
                !.scheduled_days = updatedCard.scheduled_days,
                !.reps = updatedCard.reps,
                !.lapses = updatedCard.lapses,
                !.last_review = IF updatedCard.last_review = NoDate
                                THEN row.last_review ELSE updatedCard.last_review,
                !.learning_steps = updatedCard.learning_steps,
                !.updated_at = t]

updateRow_stateNotWritten(row, updatedCard, t) ==
    [row EXCEPT !.due = updatedCard.due,
                !.stability = updatedCard.stability,
                !.difficulty = updatedCard.difficulty,
                !.elapsed_days = updatedCard.elapsed_days,
                !.scheduled_days = updatedCard.scheduled_days,
                !.reps = updatedCard.reps,
                !.lapses = updatedCard.lapses,
                !.last_review = IF updatedCard.last_review = NoDate
                                THEN row.last_review ELSE updatedCard.last_review,
                !.learning_steps = updatedCard.learning_steps,
                !.updated_at = t]

\* the object passed to .update(): the row after the write.  A column whose
\* value is undefined is left out of the update; the trigger stamps updated_at
updateRow(row, updatedCard, t) ==
    [row EXCEPT !.state = stateToString(updatedCard.state),
                !.due = updatedCard.due,
                !.stability = updatedCard.stability,
                !.difficulty = updatedCard.difficulty,
                !.elapsed_days = updatedCard.elapsed_days,
                !.scheduled_days = updatedCard.scheduled_days,
                !.reps = updatedCard.reps,
                !.lapses = updatedCard.lapses,
                !.last_review = IF updatedCard.last_review = NoDate
                                THEN row.last_review ELSE updatedCard.last_review,
                !.learning_steps = updatedCard.learning_steps,
                !.updated_at = t]

reviewLogRow_afterAsBefore(fid, user, rating, updatedCard, log, reviewTime) ==
    [flashcard_id |-> fid, user_id |-> user, rating |-> rating,
     state_before |-> stateToString(updatedCard.state),
     state_after |-> stateToString(updatedCard.state),
     stability_before |-> updatedCard.stability,
     stability_after |-> updatedCard.stability,
     difficulty_before |-> updatedCard.difficulty,
     difficulty_after |-> updatedCard.difficulty,
     elapsed_days |-> log.elapsed_days,
     scheduled_days |-> log.scheduled_days,
     created_at |-> reviewTime]

\* the row inserted into flashcard_reviews
reviewLogRow(fid, user, rating, updatedCard, log, reviewTime) ==
    [flashcard_id |-> fid, user_id |-> user, rating |-> rating,
     state_before |-> stateToString(log.state),
     state_after |-> stateToString(updatedCard.state),
     stability_before |-> log.stability,
     stability_after |-> updatedCard.stability,
     difficulty_before |-> log.difficulty,
     difficulty_after |-> updatedCard.difficulty,
     elapsed_days |-> log.elapsed_days,
     scheduled_days |-> log.scheduled_days,
     created_at |-> reviewTime]

\* stability and difficulty are DECIMAL(10,6) columns: four digits before
\* the point, in tenths
DECIMAL_MAX == 99999

\* a value as a DECIMAL(10,6) column keeps it: rounded to the column's last
\* place, which is steps units of the value
toDecimal(v, steps) == ((v + steps \div 2) \div steps) * steps

\* the row as the table keeps it
storeRow(row, steps) ==
    [row EXCEPT !.stability = toDecimal(@, steps),
                !.difficulty = toDecimal(@, steps)]

fitsColumns_unbounded(updatedCard) == updatedCard.stability >= 0

fitsColumns(updatedCard) ==
    /\ updatedCard.stability <= DECIMAL_MAX
    /\ updatedCard.difficulty <= DECIMAL_MAX

NoResponse ==
    [success |-> FALSE, status |-> 0, error |-> "", next_review |-> NoDate,
     interval_days |-> 0, card_state |-> "", stability |-> 0, difficulty |-> 0,
     reps |-> 0, lapses |-> 0]

errorResponse(message) == [NoResponse EXCEPT !.status = 400, !.error = message]

successResponse(updatedCard) ==
    [success |-> TRUE, status |-> 200, error |-> "",
     next_review |-> updatedCard.due,
     interval_days |-> updatedCard.scheduled_days,
     card_state |-> stateToString(updatedCard.state),
     stability |-> updatedCard.stability,
     difficulty |-> updatedCard.difficulty,
     reps |-> updatedCard.reps,
     lapses |-> updatedCard.lapses]

NoCard == createEmptyCard(NoDate)
NoLog == buildLog(NoCard, NoCard, 0, NoDate)

IdleRequest ==
    [pc |-> "idle", caller |-> "", flashcard_id |-> "", rating |-> 0,
     flashcard |-> NoRow, currentCard |-> NoCard, reviewTime |-> NoDate,
     updatedCard |-> NoCard, log |-> NoLog, response |-> NoResponse]

\* the handler returns: its locals are gone, the response stays with the caller
finished(q, pc, response) ==
    [IdleRequest EXCEPT !.pc = pc, !.caller = q.caller,
                        !.flashcard_id = q.flashcard_id, !.rating = q.rating,
                        !.response = response]

fail(r, message) ==
    req' = [req EXCEPT ![r] = finished(req[r], "error", errorResponse(message))]

afterReviewLog_throws(q, ok) ==
    IF ok THEN finished(q, "done", successResponse(q.updatedCard))
    ELSE finished(q, "error", errorResponse("Failed to log review"))

\* after the insert into flashcard_reviews: an error is logged, the request
\* does not fail
afterReviewLog(q, ok) == finished(q, "done", successResponse(q.updatedCard))

Free(r) == req[r].pc \in {"idle", "done", "error"}

(* --------------------------- FlashcardDeck (client) -------------------- *)
\* the cards a deck can hold: real or sample, NEW or not
DeckCards == [sample : BOOLEAN, state : {"NEW", "REVIEW"}]

\* isNewCard(card)
isNewCard(card) == card.state = "NEW"

\* the ways an invoke of flashcard-review settles: a result with data, a
\* result with error, a rejected promise
Outcomes == {"data", "error", "rejected"}

NoSettled == [path |-> "", rating |-> 0, index |-> 0, outcome |-> ""]

\* the component state: useState values, timers set, invokes in flight,
\* alerts shown; sent counts the ratings taken, requested lists the index of
\* the card of every review request made
IdleDeck ==
    [flashcards |-> <<>>, currentIndex |-> 0, isReviewing |-> FALSE,
     hasSeenAnswer |-> FALSE, timers |-> 0, calls |-> <<>>,
     alerts |-> 0,
     settled |-> NoSettled, sent |-> 0, requested |-> <<>>]

\* nextCard(rating) is on its way: the 100 ms timer and the exit animation
scheduleNextCard(d) == [d EXCEPT !.timers = @ + 1, !.sent = @ + 1]

\* supabase.functions.invoke('flashcard-review', {body}) is in flight
invokeReview(d, path, rating) ==
    [d EXCEPT !.calls = Append(@, [path |-> path, rating |-> rating,
                                   index |-> d.currentIndex]),
              !.requested = Append(@, d.currentIndex)]

\* whether the handlers attached to the invoke show Alert.alert: the button
\* path has .then (reviewError) and .catch, the swipe path a .catch that logs
alertsLearner(path, outcome) ==
    path = "button" /\ outcome \in {"error", "rejected"}

\* flashcards[currentIndex], indices from 0 as in the component
currentCardOf(d) == d.flashcards[d.currentIndex + 1]

(* ---------------------------- flashcard-due handler -------------------- *)
\* a request parameter that is left out (searchParams.get gives null, the
\* body property is undefined)
Absent == -1

DefaultLimit == 20
DefaultNewCardsLimit == 10

\* parseInt(url.searchParams.get(name) || dflt): the parameter is a string,
\* and the string '0' is truthy
parseQueryInt(v, dflt) == IF v = Absent THEN dflt ELSE v

\* parseInt(requestBody[name] || dflt): the parameter is a JSON number, and
\* the number 0 is falsy
parseBodyInt(v, dflt) == IF v = Absent \/ v = 0 THEN dflt ELSE v

parseLimit(method, v, dflt) ==
    IF method = "GET" THEN parseQueryInt(v, dflt) ELSE parseBodyInt(v, dflt)

\* .eq('user_id').eq('is_deleted', false).not('state','eq','NEW').lte('due', now)
\* a NULL state or due satisfies neither comparison
isDueRow(row, user, t) ==
    /\ row.exists
    /\ row.user_id = user
    /\ row.is_deleted = FALSE
    /\ row.state \notin {NullState, "NEW"}
    /\ row.due # NoDate /\ row.due <= t

\* .eq('user_id').eq('is_deleted', false).eq('state', 'NEW')
isNewRow(row, user) ==
    /\ row.exists
    /\ row.user_id = user
    /\ row.is_deleted = FALSE
    /\ row.state = "NEW"

RECURSIVE Orderings(_)
\* the orders in which the database may return a set of rows
Orderings(S) ==
    IF S = {} THEN {<<>>}
    ELSE UNION {{<<x>> \o p : p \in Orderings(S \ {x})} : x \in S}

\* .limit(n) of an ordered result
limitTo(p, n) == SubSeq(p, 1, Min(n, Len(p)))

\* the results .order('due', {ascending: true}).limit(n) may give; rows of
\* equal due come in any order
selectDueCards(table, user, t, n) ==
    {limitTo(p, n) :
        p \in {q \in Orderings({c \in DOMAIN table : isDueRow(table[c], user, t)}) :
                  \A i, j \in 1..Len(q) :
                      i < j => table[q[i]].due <= table[q[j]].due}}

\* the results .order('created_at', {ascending: false}).limit(n) may give
selectNewCards(table, user, n) ==
    {limitTo(p, n) :
        p \in {q \in Orderings({c \in DOMAIN table : isNewRow(table[c], user)}) :
                  \A i, j \in 1..Len(q) :
                      i < j => table[q[i]].created_at >= table[q[j]].created_at}}

\* Math.min(newCardsLimit, limit - allCards.length)
remainingSlots(newCardsLimit, limit, allCards) ==
    Min(newCardsLimit, limit - Len(allCards))

\* the rows of a query result, as read
rowsOf(table, ids) == [i \in 1..Len(ids) |-> [id |-> ids[i], row |-> table[ids[i]]]]

\* the preview request converts the row like dbToCard
previewCard(flashcard, t) == dbToCard(flashcard, t)

\* previews read schedulingCards[0..3]; a missing entry is undefined and
\* reading its card throws
previewsOf(schedulingCards) ==
    IF \A i \in 0..3 : i \in DOMAIN schedulingCards
    THEN [ok |-> TRUE,
          interval_days |-> [i \in 0..3 |-> schedulingCards[i].card.scheduled_days]]
    ELSE [ok |-> FALSE, interval_days |-> <<>>]

\* the flashcard-due invocation, not running
IdleDue ==
    [pc |-> "idle", kind |-> "", caller |-> "", method |-> "",
     limit |-> Absent, include_new |-> TRUE, new_cards_limit |-> Absent,
     flashcard_id |-> "", effLimit |-> 0, effNewCardsLimit |-> 0, time |-> NoDate,
     dueCards |-> <<>>, status |-> 0, error |-> "", flashcards |-> <<>>,
     total_due |-> 0, total_new |-> 0, stats |-> <<>>, previews |-> <<>>]

\* the invocation ends in the catch block
dueError(q, message) == [q EXCEPT !.pc = "error", !.status = 400, !.error = message]

(* ----------------------- flashcard generation cron --------------------- *)
(* Time in the cron is counted in steps of the clock.  The handler's three *)
(* spans, the processing lag (5 minutes), the retry window (24 hours) and  *)
(* the default look-back (7 days), are never compared with each other:     *)
(* each is a number of steps that lets both sides of its comparison happen.*)
ProcessingLag == 1
RetryWindow == 1
DefaultLookback == 3

Chats == {"k1", "k2"}
Jobs == {"j1", "j2"}

\* a flashcard_cron_runs row
cronRunRow(t) ==
    [status |-> "running", start_time |-> t, processed_up_to_timestamp |-> NoDate]

\* a flashcard_chat_processing row; one run takes a chat once, so the run
\* and the chat identify the row
processingRow(run, chat, status, t) ==
    [cron_run_id |-> run, chat_id |-> chat, status |-> status, processed_at |-> t]

\* the ids of the runs in status 'running'
runningJobs(runs) == {i \in DOMAIN runs : runs[i].status = "running"}

\* the processed_up_to_timestamp of the latest run, by start_time, that has
\* one; runs of equal start_time come in any order
lastRuns(runs) ==
    LET S == {i \in DOMAIN runs : runs[i].processed_up_to_timestamp # NoDate}
    IN  {runs[i].processed_up_to_timestamp :
            i \in {k \in S : \A m \in S : runs[m].start_time <= runs[k].start_time}}

\* lastRun?.processed_up_to_timestamp || seven days ago; the error of the
\* query is not looked at: when the read fails (read = FALSE) there is no
\* lastRun
lastProcessedTimestamps(runs, t, read) ==
    IF read /\ lastRuns(runs) # {} THEN lastRuns(runs) ELSE {t - DefaultLookback}

updatedChats_all(table, last, end) ==
    {k \in DOMAIN table : table[k].updated_at <= end}

\* chats updated in the processing window
updatedChats(table, last, end) ==
    {k \in DOMAIN table : table[k].updated_at > last /\ table[k].updated_at <= end}

\* chats with a failed processing record of the last 24 hours
failedChats(records, t) ==
    {rec.chat_id : rec \in {x \in records : x.status = "failed"
                                           /\ x.processed_at > t - RetryWindow}}

\* [...updatedChats, ...failedChats] without duplicates: the orders the
\* eligible chats may come in
eligibleChats(table, records, last, end, t) ==
    {p \o q : p \in Orderings(updatedChats(table, last, end)),
              q \in Orderings(failedChats(records, t)
                                \ updatedChats(table, last, end))}

\* the ways processChat ends for a chat: the processing record cannot be
\* created, the chat is processed or skipped, the messages cannot be
\* fetched, the AI call fails
ChatOutcomes ==
    {"record_failed", "processed", "skipped", "fetch_failed", "generation_failed"}

Threw(outcome) == outcome \in {"record_failed", "fetch_failed", "generation_failed"}

\* error.message includes 'API' or 'GEMINI': the errors of
\* generateFlashcardsWithAI
isCritical(outcome) == outcome = "generation_failed"

\* the status processChat gives its record
recordStatus(outcome) ==
    CASE outcome = "processed" -> "processed"
      [] outcome = "skipped"   -> "skipped"
      [] OTHER                 -> "failed"

\* cleanupFailedRecords: the chat's failed records other than the current
cleanupFailedRecords(records, chat, run) ==
    {x \in records : ~(x.chat_id = chat /\ x.status = "failed"
                                         /\ x.cron_run_id # run)}

\* processChat on the processing table: insert the record as 'processing',
\* then update it and, for a chat processed or skipped, clean up.  The
\* result of the update is not looked at and an error of the delete is only
\* logged: when the update fails (ok = FALSE) the record stays 'processing',
\* when the delete fails (cleaned = FALSE) the failed records stay
processChat(records, run, chat, outcome, ok, cleaned, t) ==
    LET status == IF ok THEN recordStatus(outcome) ELSE "processing"
        kept == IF cleaned /\ ~Threw(outcome)
                THEN cleanupFailedRecords(records, chat, run) ELSE records
    IN  IF outcome = "record_failed" THEN records
        ELSE kept \cup {processingRow(run, chat, status, t)}

\* the flashcards processChat stores: a NEW row in a free place of the table
storeFlashcards(table, t) ==
    IF \E c \in DOMAIN table : ~table[c].exists
    THEN LET c == CHOOSE x \in DOMAIN table : ~table[x].exists
         IN  [table EXCEPT ![c] = newFlashcardRow(Owner, t)]
    ELSE table

NoCronResponse == [status |-> 0, success |-> FALSE, skipped |-> FALSE]

\* a cron invocation, not running
IdleJob ==
    [pc |-> "idle", cronRunId |-> 0, lastProcessedTimestamp |-> NoDate,
     processingEndTime |-> NoDate, eligibleChats |-> <<>>, index |-> 0,
     hasCriticalFailures |-> FALSE, response |-> NoCronResponse]

\* the invocation returns
returned(status, success, skipped) ==
    [IdleJob EXCEPT !.pc = "returned",
                    !.response = [status |-> status, success |-> success,
                                  skipped |-> skipped]]

afterChat_rethrows(job, outcome) ==
    IF Threw(outcome) THEN [job EXCEPT !.pc = "failing"]
    ELSE [job EXCEPT !.index = @ + 1,
                     !.pc = IF job.index = Len(job.eligibleChats)
                            THEN "finishing" ELSE "processing"]

\* the for loop over the eligible chats after one chat: the catch notes a
\* critical failure and the loop goes on
afterChat(job, outcome) ==
    [job EXCEPT !.index = @ + 1,
                !.hasCriticalFailures = @ \/ isCritical(outcome),
                !.pc = IF job.index = Len(job.eligibleChats)
                       THEN "finishing" ELSE "processing"]

\* no cron tables and no invocation: the part of the state the review path
\* and the deck leave alone
NoCronJob ==
    /\ flashcard_cron_runs = <<>>
    /\ flashcard_chat_processing = {}
    /\ chats = [k \in Chats |-> [updated_at |-> 0]]
    /\ cron = [j \in Jobs |-> IdleJob]

(* ------------------------------- actions ------------------------------- *)
\* invocations take the first free slot
Earlier(q, r) == q = "r1" /\ r = "r2"

Init ==
    /\ flashcards = [c \in Cards |-> NoRow]
    /\ flashcard_reviews = <<>>
    /\ req = [r \in Requests |-> IdleRequest]
    /\ now = 0
    /\ accepted = 0
    /\ due_req = IdleDue
    /\ NoCronJob
    /\ deck = IdleDeck

\* processChat stores a generated flashcard
InsertFlashcard(c) ==
    /\ ~flashcards[c].exists
    /\ flashcards' = [flashcards EXCEPT ![c] = newFlashcardRow(Owner, now)]
    /\ UNCHANGED <<flashcard_reviews, req, now, accepted, due_req, deck, cronjob>>

\* the handler up to the rating check: authentication, body, validation
Receive(r, caller, fid, rating) ==
    /\ Free(r)
    /\ \A q \in Requests : Earlier(q, r) => ~Free(q)
    /\ accepted < MaxReviews
    /\ accepted' = accepted + 1
    /\ LET q == [IdleRequest EXCEPT !.caller = caller, !.flashcard_id = fid,
                                    !.rating = rating]
       IN  IF caller = "anonymous"
           THEN req' = [req EXCEPT ![r] = [q EXCEPT !.pc = "error",
                            !.response = errorResponse("Unauthorized")]]
           ELSE IF ~validRating(rating)
           THEN req' = [req EXCEPT ![r] = [q EXCEPT !.pc = "error",
                            !.response = errorResponse("Invalid rating")]]
           ELSE req' = [req EXCEPT ![r] = [q EXCEPT !.pc = "validated"]]
    /\ UNCHANGED <<flashcards, flashcard_reviews, now, due_req, deck, cronjob>>

\* select the row, convert it, compute the four candidates, select one
FetchFlashcard(r) ==
    /\ req[r].pc = "validated"
    /\ LET fid == req[r].flashcard_id
           row == IF fid \in Cards THEN flashcards[fid] ELSE NoRow
           currentCard == dbToCard(row, now)
           schedulingCards == repeat(currentCard, now)
           g == tsfsrsRating(req[r].rating)
       IN  IF ~row.exists \/ row.user_id # req[r].caller
           THEN fail(r, "Flashcard not found or access denied")
           ELSE IF g = 0
           THEN fail(r, "Invalid rating")
           ELSE IF g \notin DOMAIN schedulingCards
           THEN fail(r, "Invalid rating selection")
           ELSE req' = [req EXCEPT ![r].pc = "scheduled",
                                   ![r].flashcard = row,
                                   ![r].currentCard = currentCard,
                                   ![r].reviewTime = now,
                                   ![r].updatedCard = schedulingCards[g].card,
                                   ![r].log = schedulingCards[g].log]
    /\ UNCHANGED <<flashcards, flashcard_reviews, now, accepted, due_req, deck, cronjob>>

\* .update({...}).eq('id', flashcard_id): unconditional on what was read.
\* The database rejects a value its column cannot hold
UpdateFlashcard(r) ==
    /\ req[r].pc = "scheduled"
    /\ \E ok \in IF fitsColumns(req[r].updatedCard) THEN BOOLEAN ELSE {FALSE} :
         IF ok
         THEN /\ flashcards' = [flashcards EXCEPT ![req[r].flashcard_id] =
                                    storeRow(updateRow(@, req[r].updatedCard, now), 1)]
              /\ req' = [req EXCEPT ![r].pc = "updated"]
         ELSE /\ fail(r, "Failed to update flashcard")
              /\ UNCHANGED flashcards
    /\ UNCHANGED <<flashcard_reviews, now, accepted, due_req, deck, cronjob>>

\* insert the review log; a failed insert is logged and ignored
InsertReviewLog(r) ==
    /\ req[r].pc = "updated"
    /\ \E ok \in BOOLEAN :
         /\ flashcard_reviews' =
               IF ok THEN Append(flashcard_reviews,
                                 reviewLogRow(req[r].flashcard_id, req[r].caller,
                                              req[r].rating, req[r].updatedCard,
                                              req[r].log, req[r].reviewTime))
               ELSE flashcard_reviews
         /\ req' = [req EXCEPT ![r] = afterReviewLog(req[r], ok)]
    /\ UNCHANGED <<flashcards, now, accepted, due_req, deck, cronjob>>

\* the clock counts days and an invocation lasts milliseconds: a day passes
\* between invocations
Tick ==
    /\ now < MaxTime
    /\ \A r \in Requests : Free(r)
    /\ now' = now + 1
    /\ UNCHANGED <<flashcards, flashcard_reviews, req, accepted, due_req, deck, cronjob>>

Next ==
    \/ \E c \in Cards : InsertFlashcard(c)
    \/ \E r \in Requests, caller \in Callers, fid \in FlashcardIds,
          rating \in RatingInputs : Receive(r, caller, fid, rating)
    \/ \E r \in Requests : FetchFlashcard(r)
    \/ \E r \in Requests : UpdateFlashcard(r)
    \/ \E r \in Requests : InsertReviewLog(r)
    \/ Tick

Spec == Init /\ [][Next]_vars

(* The same program started on any row the flashcards table admits: the   *)
(* state column is nullable and checked against the four names, the FSRS  *)
(* columns are nullable numbers and timestamps.                            *)
PersistedStates == {NullState, "NEW", "LEARNING", "REVIEW", "RELEARNING"}

PersistedRows ==
    {[newFlashcardRow(Owner, 0) EXCEPT !.state = st, !.due = d,
          !.stability = sd[1], !.difficulty = sd[2], !.reps = rl[1],
          !.lapses = rl[2], !.last_review = lr] :
        st \in PersistedStates, d \in {NoDate, 0}, sd \in {<<0, 0>>, <<31, 53>>},
        rl \in {<<0, 0>>, <<2, 1>>}, lr \in {NoDate, 0}}

InitRow ==
    /\ flashcards \in [Cards -> PersistedRows \cup {NoRow}]
    /\ flashcard_reviews = <<>>
    /\ req = [r \in Requests |-> IdleRequest]
    /\ now = 0
    /\ accepted = 0
    /\ due_req = IdleDue
    /\ NoCronJob
    /\ deck = IdleDeck

SpecRow == InitRow /\ [][Next]_vars

(* The review handler on rows at the ends of what the columns hold, long   *)
(* after their last review or on the day of it.                            *)
LongAfter == 1000000

ExtremeRows ==
    {[newFlashcardRow(Owner, 0) EXCEPT !.state = "REVIEW", !.due = 0,
          !.stability = s, !.difficulty = d, !.reps = n, !.last_review = lr] :
        s \in {0, S_MIN, DECIMAL_MAX}, d \in {0, D_MAX, D_MAX + D_MAX \div 2},
        n \in {2, 3}, lr \in {0, LongAfter}}

InitExtreme ==
    /\ flashcards \in [Cards -> ExtremeRows]
    /\ flashcard_reviews = <<>>
    /\ req = [r \in Requests |-> IdleRequest]
    /\ now = LongAfter
    /\ accepted = 0
    /\ due_req = IdleDue
    /\ NoCronJob
    /\ deck = IdleDeck

NextReview ==
    \/ \E r \in Requests, caller \in Callers, fid \in FlashcardIds,
          rating \in RatingInputs : Receive(r, caller, fid, rating)
    \/ \E r \in Requests : FetchFlashcard(r)
    \/ \E r \in Requests : UpdateFlashcard(r)
    \/ \E r \in Requests : InsertReviewLog(r)

SpecExtreme == InitExtreme /\ [][NextReview]_vars

(* Saving a card and loading it again.  Here stability and difficulty are  *)
(* counted in units of 10^-8, the places the scheduler rounds its results  *)
(* to; the column keeps six places.                                        *)
LibrarySteps == 100

SavedCards ==
    {createEmptyCard(0)} \cup
    {[createEmptyCard(d) EXCEPT !.state = st, !.stability = sd[1],
          !.difficulty = sd[2], !.reps = rl[1], !.lapses = rl[2],
          !.scheduled_days = d, !.last_review = 0] :
        st \in {StateLearning, StateReview, StateRelearning}, d \in {1, 2},
        sd \in {<<312620000, 721020000>>, <<230651234, 531406250>>,
                <<1182900049, 100000050>>},
        rl \in {<<1, 0>>, <<2, 0>>, <<3, 1>>}}

InitRoundTrip ==
    /\ flashcards = [c \in Cards |-> newFlashcardRow(Owner, 0)]
    /\ flashcard_reviews = <<>>
    /\ \E card \in SavedCards :
          req = [r \in Requests |->
                   IF Earlier(r, "r2")
                   THEN [IdleRequest EXCEPT !.pc = "scheduled", !.caller = Owner,
                                            !.flashcard_id = "c1", !.rating = RatingGood,
                                            !.reviewTime = 0, !.updatedCard = card]
                   ELSE IdleRequest]
    /\ now = 0
    /\ accepted = 0
    /\ due_req = IdleDue
    /\ NoCronJob
    /\ deck = IdleDeck

\* the update of the review handler, the columns rounding what they are given
SaveCard(r) ==
    /\ req[r].pc = "scheduled"
    /\ flashcards' = [flashcards EXCEPT ![req[r].flashcard_id] =
                         storeRow(updateRow(@, req[r].updatedCard, now), LibrarySteps)]
    /\ req' = [req EXCEPT ![r].pc = "updated"]
    /\ UNCHANGED <<flashcard_reviews, now, accepted, due_req, deck, cronjob>>

\* a later invocation selects the row and converts it
ReloadCard(r) ==
    /\ req[r].pc = "updated"
    /\ req' = [req EXCEPT ![r].pc = "reloaded",
                          ![r].flashcard = flashcards[req[r].flashcard_id],
                          ![r].currentCard =
                              dbToCard(flashcards[req[r].flashcard_id], now)]
    /\ UNCHANGED <<flashcards, flashcard_reviews, now, accepted, due_req, deck, cronjob>>

NextRoundTrip ==
    \/ \E r \in Requests : SaveCard(r)
    \/ \E r \in Requests : ReloadCard(r)

SpecRoundTrip == InitRoundTrip /\ [][NextRoundTrip]_vars

(* ------------------ flashcard generation cron actions ------------------ *)
MaxCronTime == 2
MaxRuns == 2

InitCron ==
    /\ flashcards = [c \in Cards |-> NoRow]
    /\ flashcard_reviews = <<>>
    /\ req = [r \in Requests |-> IdleRequest]
    /\ now = ProcessingLag
    /\ accepted = 0
    /\ due_req = IdleDue
    /\ deck = IdleDeck
    /\ flashcard_cron_runs = <<>>
    /\ flashcard_chat_processing = {}
    /\ chats = [k \in Chats |-> [updated_at |-> 0]]
    /\ cron = [j \in Jobs |-> IdleJob]

\* the review path and the deck, which the cron leaves alone but for the
\* flashcards it stores
review == <<flashcards, flashcard_reviews, req, accepted, due_req, deck>>

\* an invocation arrives: the secret key, then the check for running jobs
CheckRunningJobs(j, authorized, ok) ==
    /\ cron[j].pc \in {"idle", "returned"}
    /\ \A i \in Jobs : (i = "j1" /\ j = "j2") => cron[i].pc \notin {"idle", "returned"}
    /\ Len(flashcard_cron_runs)
          + Cardinality({i \in Jobs : cron[i].pc = "checked"}) < MaxRuns
    /\ cron' = [cron EXCEPT ![j] =
                   IF ~authorized THEN returned(401, FALSE, FALSE)
                   ELSE IF ~ok THEN returned(500, FALSE, FALSE)
                   ELSE IF runningJobs(flashcard_cron_runs) # {}
                   THEN returned(200, TRUE, TRUE)
                   ELSE [IdleJob EXCEPT !.pc = "checked"]]
    /\ UNCHANGED <<review, now, flashcard_cron_runs, flashcard_chat_processing, chats>>

\* insert the cron run as 'running'
CreateCronRun(j, ok) ==
    /\ cron[j].pc = "checked"
    /\ IF ok
       THEN /\ flashcard_cron_runs' = Append(flashcard_cron_runs, cronRunRow(now))
            /\ cron' = [cron EXCEPT ![j].pc = "created",
                                    ![j].cronRunId = Len(flashcard_cron_runs) + 1]
       ELSE /\ cron' = [cron EXCEPT ![j] = returned(500, FALSE, FALSE)]
            /\ UNCHANGED flashcard_cron_runs
    /\ UNCHANGED <<review, now, flashcard_chat_processing, chats>>

\* the last processed timestamp, the processing window and the eligible
\* chats; with none, the run is about to be marked completed
FindEligibleChats(j, ok, read) ==
    /\ cron[j].pc = "created"
    /\ IF ~ok
       THEN cron' = [cron EXCEPT ![j].pc = "failing"]
       ELSE \E last \in lastProcessedTimestamps(flashcard_cron_runs, now, read) :
              \E eligible \in eligibleChats(chats, flashcard_chat_processing, last,
                                            now - ProcessingLag, now) :
                 cron' = [cron EXCEPT ![j].lastProcessedTimestamp = last,
                                      ![j].processingEndTime = now - ProcessingLag,
                                      ![j].eligibleChats = eligible,
                                      ![j].index = 1,
                                      ![j].pc = IF eligible = <<>> THEN "finishing"
                                                ELSE "processing"]
    /\ UNCHANGED <<review, now, flashcard_cron_runs, flashcard_chat_processing, chats>>

\* one turn of the loop: processChat for the next eligible chat
ProcessChat(j, outcome, ok, cleaned) ==
    /\ cron[j].pc = "processing"
    /\ LET chat == cron[j].eligibleChats[cron[j].index]
       IN  /\ flashcard_chat_processing' =
                 processChat(flashcard_chat_processing, cron[j].cronRunId, chat,
                             outcome, ok, cleaned, now)
           /\ flashcards' = IF outcome = "processed"
                            THEN storeFlashcards(flashcards, now) ELSE flashcards
    /\ cron' = [cron EXCEPT ![j] = afterChat(cron[j], outcome)]
    /\ UNCHANGED <<flashcard_reviews, req, now, accepted, due_req, deck,
                   flashcard_cron_runs, chats>>

\* the final update of the run: 'failed' with critical failures, else
\* 'completed'; its result is not looked at
FinishCronRun(j, ok) ==
    /\ cron[j].pc = "finishing"
    /\ flashcard_cron_runs' =
          IF ok
          THEN [flashcard_cron_runs EXCEPT ![cron[j].cronRunId] =
                  [@ EXCEPT !.status = IF cron[j].hasCriticalFailures
                                       THEN "failed" ELSE "completed",
                            !.processed_up_to_timestamp = cron[j].processingEndTime]]
          ELSE flashcard_cron_runs
    /\ cron' = [cron EXCEPT ![j] = returned(200, ~cron[j].hasCriticalFailures, FALSE)]
    /\ UNCHANGED <<review, now, flashcard_chat_processing, chats>>

\* the inner catch: mark the run failed and rethrow
FailCronRun(j, ok) ==
    /\ cron[j].pc = "failing"
    /\ flashcard_cron_runs' =
          IF ok
          THEN [flashcard_cron_runs EXCEPT ![cron[j].cronRunId].status = "failed"]
          ELSE flashcard_cron_runs
    /\ cron' = [cron EXCEPT ![j] = returned(500, FALSE, FALSE)]
    /\ UNCHANGED <<review, now, flashcard_chat_processing, chats>>

\* a learner sends a message: the chat is updated
UpdateChat(k) ==
    /\ chats[k].updated_at < now
    /\ chats' = [chats EXCEPT ![k].updated_at = now]
    /\ UNCHANGED <<review, now, flashcard_cron_runs, flashcard_chat_processing, cron>>

CronTick ==
    /\ now < MaxCronTime
    /\ now' = now + 1
    /\ UNCHANGED <<review, cronjob>>

\* no invocation is under way
NoJobInFlight == \A i \in Jobs : cron[i].pc \in {"idle", "returned"}

\* the schedule invokes the function when the invocation before has returned
InvokeCron(j, authorized, ok) ==
    /\ NoJobInFlight
    /\ CheckRunningJobs(j, authorized, ok)

\* the invocations of the schedule, one after the other, while chats are
\* updated and time passes
NextCron ==
    \/ \E j \in Jobs, authorized \in BOOLEAN, ok \in BOOLEAN :
          InvokeCron(j, authorized, ok)
    \/ \E j \in Jobs, ok \in BOOLEAN : CreateCronRun(j, ok)
    \/ \E j \in Jobs, ok \in BOOLEAN, read \in BOOLEAN : FindEligibleChats(j, ok, read)
    \/ \E j \in Jobs, outcome \in ChatOutcomes, ok \in BOOLEAN, cleaned \in BOOLEAN :
          ProcessChat(j, outcome, ok, cleaned)
    \/ \E j \in Jobs, ok \in BOOLEAN : FinishCronRun(j, ok)
    \/ \E j \in Jobs, ok \in BOOLEAN : FailCronRun(j, ok)
    \/ \E k \in Chats : UpdateChat(k)
    \/ CronTick

SpecCron == InitCron /\ [][NextCron]_vars

\* invocations that arrive while another is under way
NextCronRace ==
    \/ \E j \in Jobs, authorized \in BOOLEAN, ok \in BOOLEAN :
          CheckRunningJobs(j, authorized, ok)
    \/ \E j \in Jobs, ok \in BOOLEAN : CreateCronRun(j, ok)
    \/ \E j \in Jobs, ok \in BOOLEAN, read \in BOOLEAN : FindEligibleChats(j, ok, read)
    \/ \E j \in Jobs, outcome \in ChatOutcomes, ok \in BOOLEAN, cleaned \in BOOLEAN :
          ProcessChat(j, outcome, ok, cleaned)
    \/ \E j \in Jobs, ok \in BOOLEAN : FinishCronRun(j, ok)
    \/ \E j \in Jobs, ok \in BOOLEAN : FailCronRun(j, ok)

SpecCronRace == InitCron /\ [][NextCronRace]_vars

(* ----------------------------- deck actions ---------------------------- *)
\* fetchFlashcards has filled the deck: any deck of DeckSize cards
InitDeck ==
    /\ flashcards = [c \in Cards |-> NoRow]
    /\ flashcard_reviews = <<>>
    /\ req = [r \in Requests |-> IdleRequest]
    /\ now = 0
    /\ accepted = 0
    /\ due_req = IdleDue
    /\ NoCronJob
    /\ \E cards \in [1..DeckSize -> DeckCards] :
          deck = [IdleDeck EXCEPT !.flashcards = cards,
                                  !.hasSeenAnswer = isNewCard(cards[1])]

\* flipCard on a card that is not new: the answer has been seen
FlipCard ==
    /\ deck.currentIndex < Len(deck.flashcards)
    /\ ~isNewCard(currentCardOf(deck))
    /\ ~deck.hasSeenAnswer
    /\ deck' = [deck EXCEPT !.hasSeenAnswer = TRUE]
    /\ UNCHANGED <<server, due_req, cronjob>>

\* submitReview(rating), from a rating button or a key
SubmitReview(rating) ==
    /\ deck.sent < MaxSent
    /\ deck.currentIndex < Len(deck.flashcards)
    /\ ~deck.isReviewing
    /\ isNewCard(currentCardOf(deck)) \/ deck.hasSeenAnswer
    /\ deck' = IF currentCardOf(deck).sample
               THEN scheduleNextCard(deck)
               ELSE invokeReview(scheduleNextCard(deck), "button", rating)
    /\ UNCHANGED <<server, due_req, cronjob>>

\* onHandlerStateChange at the end of a swipe that reads as a rating
SwipeRating(rating) ==
    /\ deck.sent < MaxSent
    /\ deck.currentIndex < Len(deck.flashcards)
    /\ ~deck.isReviewing
    /\ isNewCard(currentCardOf(deck)) \/ deck.hasSeenAnswer
    /\ deck' = IF currentCardOf(deck).sample
               THEN scheduleNextCard(deck)
               ELSE [invokeReview(scheduleNextCard(deck), "swipe", rating)
                        EXCEPT !.isReviewing = TRUE]
    /\ UNCHANGED <<server, due_req, cronjob>>

\* the exit animation ends: setCurrentIndex(prev => prev + 1), and the effect
\* on currentIndex sets hasSeenAnswer for the card now shown
NextCard ==
    /\ deck.timers > 0
    /\ deck' = [deck EXCEPT !.timers = @ - 1,
                            !.currentIndex = @ + 1,
                            !.hasSeenAnswer =
                                IF deck.currentIndex + 1 < Len(deck.flashcards)
                                THEN isNewCard(deck.flashcards[deck.currentIndex + 2])
                                ELSE FALSE]
    /\ UNCHANGED <<server, due_req, cronjob>>

\* the invoke in flight at position i settles
SettleReview(i, outcome) ==
    /\ i \in 1..Len(deck.calls)
    /\ LET call == deck.calls[i]
       IN  deck' = [deck EXCEPT
                !.calls = SubSeq(@, 1, i - 1) \o SubSeq(@, i + 1, Len(@)),
                !.settled = [path |-> call.path, rating |-> call.rating,
                             index |-> call.index, outcome |-> outcome],
                !.alerts = IF alertsLearner(call.path, outcome) THEN @ + 1 ELSE @,
                !.isReviewing = IF call.path = "swipe" THEN FALSE ELSE @]
    /\ UNCHANGED <<server, due_req, cronjob>>

NextDeck ==
    \/ FlipCard
    \/ \E rating \in Grades : SubmitReview(rating)
    \/ \E rating \in Grades : SwipeRating(rating)
    \/ NextCard
    \/ \E i \in 1..MaxSent, outcome \in Outcomes : SettleReview(i, outcome)

SpecDeck == InitDeck /\ [][NextDeck]_vars

(* ------------------------- flashcard-due actions ----------------------- *)
\* the largest limit a request asks for
MaxLimit == 2

DueCardIds == {"c1", "c2", "c3"}
DueCallers == {"anonymous", "u1"}
LimitInputs == {Absent} \cup 0..MaxLimit

\* rows the flashcards table may hold when a request arrives at instant 1:
\* the learner's new, due and not yet due cards, and rows the queries must
\* leave out (another user's, soft-deleted, without a state)
DueRows ==
    {[newFlashcardRow(x[1], x[2]) EXCEPT !.is_deleted = x[3], !.state = x[4],
                                         !.due = x[5]] :
        x \in {<<"u1", 0, FALSE, "NEW", 0>>, <<"u1", 1, FALSE, "NEW", 1>>,
               <<"u1", 0, FALSE, "REVIEW", 0>>, <<"u1", 0, FALSE, "REVIEW", 1>>,
               <<"u1", 0, FALSE, "LEARNING", 2>>, <<"u1", 0, FALSE, NullState, 0>>,
               <<"u2", 0, FALSE, "NEW", 0>>, <<"u2", 0, FALSE, "REVIEW", 0>>,
               <<"u1", 0, TRUE, "NEW", 0>>, <<"u1", 0, TRUE, "REVIEW", 0>>}}

InitDue ==
    /\ flashcards \in [DueCardIds -> DueRows]
    /\ flashcard_reviews = <<>>
    /\ req = [r \in Requests |-> IdleRequest]
    /\ now = 1
    /\ accepted = 0
    /\ due_req = IdleDue
    /\ NoCronJob
    /\ deck = IdleDeck

\* one invocation is followed from its arrival to its response
DueFree == due_req.pc = "idle"

\* a request for due cards or statistics, up to the first query's result:
\* authentication, parameters, then the statistics or the due-cards query
DueRequest(caller, method, lim, inc, ncl, stats_only, ok) ==
    /\ DueFree
    /\ LET q == [IdleDue EXCEPT !.kind = IF stats_only THEN "stats" ELSE "cards",
                                !.caller = caller, !.method = method,
                                !.limit = lim, !.include_new = inc,
                                !.new_cards_limit = ncl, !.time = now,
                                !.effLimit = parseLimit(method, lim, DefaultLimit),
                                !.effNewCardsLimit =
                                    parseLimit(method, ncl, DefaultNewCardsLimit)]
       IN  IF caller = "anonymous"
           THEN due_req' = dueError(q, "Unauthorized")
           ELSE IF stats_only
           THEN due_req' =
                  [q EXCEPT !.pc = "done", !.status = 200,
                            !.stats =
                              <<Cardinality({c \in DOMAIN flashcards :
                                               isDueRow(flashcards[c], caller, now)}),
                                Cardinality({c \in DOMAIN flashcards :
                                               isNewRow(flashcards[c], caller)})>>]
           ELSE IF ~ok
           THEN due_req' = dueError(q, "Failed to fetch due cards")
           ELSE \E ids \in selectDueCards(flashcards, caller, now, q.effLimit) :
                  due_req' = [q EXCEPT !.pc = "due_fetched",
                                       !.dueCards = rowsOf(flashcards, ids)]
    /\ UNCHANGED <<server, deck, cronjob>>

\* the rest of the due-cards request: new cards when asked for and there is
\* room (a failure of that query is only logged), then the response
RespondDueCards(ok) ==
    /\ due_req.pc = "due_fetched"
    /\ LET q == due_req
           allCards == q.dueCards
           slots == remainingSlots(q.effNewCardsLimit, q.effLimit, allCards)
       IN  \E ids \in IF q.include_new /\ Len(allCards) < q.effLimit /\ ok
                       THEN selectNewCards(flashcards, q.caller, slots)
                       ELSE {<<>>} :
              due_req' = [q EXCEPT !.pc = "done", !.status = 200,
                                   !.flashcards = allCards \o rowsOf(flashcards, ids),
                                   !.total_due = Len(allCards),
                                   !.total_new = Len(ids)]
    /\ UNCHANGED <<server, deck, cronjob>>

PreviewIntervals_touches(caller, fid) ==
    /\ DueFree
    /\ due_req' = [IdleDue EXCEPT !.pc = "done", !.kind = "preview",
                                  !.caller = caller, !.method = "POST",
                                  !.flashcard_id = fid, !.time = now]
    /\ flashcards' = [flashcards EXCEPT ![fid].updated_at = now]
    /\ UNCHANGED <<flashcard_reviews, req, now, accepted, deck, cronjob>>

\* a preview request (POST with flashcard_id): fetch the row, convert it, run
\* repeat and read the four previews
PreviewIntervals(caller, fid) ==
    /\ DueFree
    /\ LET q == [IdleDue EXCEPT !.kind = "preview", !.caller = caller,
                                !.method = "POST", !.flashcard_id = fid,
                                !.time = now]
           flashcard == flashcards[fid]
           schedulingCards == repeat(previewCard(flashcard, now), now)
           previews == previewsOf(schedulingCards)
       IN  due_req' =
             IF caller = "anonymous" THEN dueError(q, "Unauthorized")
             ELSE IF ~flashcard.exists \/ flashcard.user_id # caller
             THEN dueError(q, "Flashcard not found")
             ELSE IF ~previews.ok
             THEN dueError(q, "TypeError")
             ELSE [q EXCEPT !.pc = "done", !.status = 200,
                            !.previews = previews.interval_days]
    /\ UNCHANGED <<server, deck, cronjob>>

NextDue ==
    \/ \E caller \in DueCallers, method \in {"GET", "POST"},
          lim \in LimitInputs, inc \in BOOLEAN, ncl \in LimitInputs,
          stats_only \in BOOLEAN, ok \in BOOLEAN :
          DueRequest(caller, method, lim, inc, ncl, stats_only, ok)
    \/ \E ok \in BOOLEAN : RespondDueCards(ok)
    \/ \E caller \in DueCallers, fid \in DueCardIds : PreviewIntervals(caller, fid)

SpecDue == InitDue /\ [][NextDue]_vars

(* ================================ claims =============================== *)
\* the step in which request r writes its computed card state to the row
Committing(r) == req[r].pc = "scheduled" /\ req'[r].pc = "updated"

\* the step in which request r is answered with an error
Failing(r) == req'[r].pc = "error" /\ req'[r] # req[r]

InFlight(r) == req[r].pc \in {"scheduled", "updated"}

StateNames == <<"NEW", "LEARNING", "REVIEW", "RELEARNING">>

\* C1: a review commits its computed card state only while the row is still
\* the one it read: of two reviews that both read the row before either
\* writes, the second never overwrites the first commit from its stale read.
C1_NoCommitFromStaleRead ==
    [][\A r \in Requests :
         Committing(r) => flashcards[req[r].flashcard_id] = req[r].flashcard]_vars

\* C2: a committed review adds exactly 1 to the row's lapses if and only if
\* the rating is Again and the row is in REVIEW before the commit; in every
\* other case the row's lapses is unchanged.
C2_LapsesIffAgainFromReview ==
    [][\A r \in Requests :
         Committing(r) =>
           LET before == flashcards[req[r].flashcard_id]
               after  == flashcards'[req[r].flashcard_id]
           IN  IF req[r].rating = 1 /\ before.state = "REVIEW"
               THEN after.lapses = before.lapses + 1
               ELSE after.lapses = before.lapses]_vars

\* the candidate repeat(card, now) holds for the rating of request r, from the
\* row the request read
CandidateOf(q) ==
    repeat(dbToCard(q.flashcard, q.reviewTime), q.reviewTime)[q.rating].card

C4_FailedReviewLeavesRow ==
    [][\A r \in Requests :
         /\ Failing(r) => /\ flashcards' = flashcards
                          /\ req[r].pc # "updated"
         /\ (req[r].pc = "updated" /\ req'[r] # req[r]) =>
              /\ req'[r].pc = "done"
              /\ req'[r].response.success]_vars

C4_Witness ==
    \E r \in Requests :
        /\ req[r].pc = "error"
        /\ req[r].response.error = "Failed to update flashcard"
        /\ flashcards[req[r].flashcard_id].exists

\* C5: a request whose rating is not 1, 2, 3 or 4 is rejected in the step that
\* receives it, before any row is fetched or any schedule computed, with the
\* Invalid rating error (once the caller is authenticated, which is checked
\* first), and the flashcards table and the review log stay as they are.
C5_InvalidRatingRejectedFirst ==
    [][\A r \in Requests :
         (Free(r) /\ req'[r] # req[r] /\ req'[r].rating \notin {1, 2, 3, 4}) =>
            /\ req'[r].pc = "error"
            /\ req'[r].response.status = 400
            /\ req'[r].caller # "anonymous" => req'[r].response.error = "Invalid rating"
            /\ req'[r].flashcard = NoRow
            /\ req'[r].updatedCard = NoCard
            /\ flashcards' = flashcards
            /\ flashcard_reviews' = flashcard_reviews]_vars

C5_Witness ==
    \E r \in Requests :
        /\ req[r].pc = "error"
        /\ req[r].rating = 5
        /\ req[r].caller = Owner
        /\ req[r].response.error = "Invalid rating"
        /\ flashcards[req[r].flashcard_id].exists

\* C6: a row whose state is none of NEW, LEARNING, REVIEW, RELEARNING is never
\* converted and scheduled: no review of it gets as far as a computed schedule.
C6_UnknownStateFailsFast ==
    \A r \in Requests :
        InFlight(r) =>
            req[r].flashcard.state \in {"NEW", "LEARNING", "REVIEW", "RELEARNING"}

\* C7: every committed review adds exactly 1 to the row's reps and sets the
\* row's last_review to the review time.
C7_RepsAndLastReview ==
    [][\A r \in Requests :
         Committing(r) =>
           /\ flashcards'[req[r].flashcard_id].reps
                 = flashcards[req[r].flashcard_id].reps + 1
           /\ flashcards'[req[r].flashcard_id].last_review = req[r].reviewTime]_vars

\* C8: every row created as NEW satisfies, after any sequence of reviews,
\* reps >= lapses >= 0 and, when last_review is present, due >= last_review.
C8_RowInvariant ==
    \A c \in Cards :
        flashcards[c].exists =>
            /\ flashcards[c].reps >= flashcards[c].lapses
            /\ flashcards[c].lapses >= 0
            /\ flashcards[c].last_review # NoDate =>
                   flashcards[c].due >= flashcards[c].last_review

C8_Witness ==
    \E c \in Cards :
        /\ flashcards[c].exists
        /\ flashcards[c].reps = 2
        /\ flashcards[c].lapses = 1
        /\ flashcards[c].last_review = 1

\* the interval next_interval gives the stability request r computed
IntervalOf(q) ==
    next_interval(q.updatedCard.stability, q.updatedCard.elapsed_days,
                  fuzz_factor(q.reviewTime, q.updatedCard.reps,
                              q.flashcard.difficulty, q.flashcard.stability))

\* C9: from REVIEW, Again moves the card to Relearning with one more
\* lapse, a lower stability and a sub-day interval; Hard, Good and Easy keep
\* it in Review with scheduled_days = nextInterval(new stability).
C9_ReviewTransitions ==
    \A r \in Requests :
        (InFlight(r) /\ req[r].flashcard.state = "REVIEW") =>
            IF req[r].rating = 1
            THEN /\ req[r].updatedCard.state = StateRelearning
                 /\ req[r].updatedCard.lapses = req[r].flashcard.lapses + 1
                 /\ req[r].updatedCard.stability < req[r].flashcard.stability
                 /\ req[r].updatedCard.scheduled_days = 0
                 /\ req[r].updatedCard.due - req[r].reviewTime < 1
            ELSE /\ req[r].updatedCard.state = StateReview
                 /\ req[r].updatedCard.scheduled_days = IntervalOf(req[r])

\* C10: the first review of a NEW card yields reps = 1, lapses = 0,
\* the initial difficulty and stability of the rating, due after the review
\* time, and state Learning for Again/Hard/Good, Review for Easy.
C10_FirstReviewOfNew ==
    \A r \in Requests :
        (InFlight(r) /\ req[r].flashcard.state = "NEW") =>
            /\ req[r].updatedCard.reps = 1
            /\ req[r].updatedCard.lapses = 0
            /\ req[r].updatedCard.difficulty = init_difficulty(req[r].rating)
            /\ req[r].updatedCard.stability = init_stability(req[r].rating)
            /\ req[r].updatedCard.due > req[r].reviewTime
            /\ req[r].updatedCard.state =
                  IF req[r].rating = 4 THEN StateReview ELSE StateLearning

\* C11: a LEARNING card rated Again stays in Learning at the first step with
\* lapses unchanged; a RELEARNING card that leaves its steps goes to Review,
\* never to New, with the difficulty and stability computed from its own and
\* not the defaults of a new card.
C11_LearningAndRelearning ==
    \A r \in Requests :
        InFlight(r) =>
            /\ (req[r].flashcard.state = "LEARNING" /\ req[r].rating = 1) =>
                  /\ req[r].updatedCard.state = StateLearning
                  /\ req[r].updatedCard.learning_steps = 0
                  /\ req[r].updatedCard.lapses = req[r].currentCard.lapses
            /\ (req[r].flashcard.state = "RELEARNING"
                  /\ req[r].updatedCard.state # StateRelearning) =>
                  /\ req[r].updatedCard.state = StateReview
                  /\ req[r].updatedCard.difficulty =
                        next_difficulty(req[r].currentCard.difficulty, req[r].rating)
                  /\ req[r].updatedCard.stability =
                        candidate_s(req[r].currentCard,
                                    scheduler_init(req[r].currentCard, req[r].reviewTime),
                                    req[r].rating)

\* C12: every persisted row in state NEW has never been reviewed: reps = 0 and
\* no last_review; and no commit stores a row as NEW.
C12_NewNeverReviewed ==
    /\ \A c \in Cards :
          (flashcards[c].exists /\ flashcards[c].state = "NEW") =>
              /\ flashcards[c].reps = 0
              /\ flashcards[c].last_review = NoDate
    /\ \A r \in Requests :
          req[r].pc = "updated" =>
              /\ flashcards[req[r].flashcard_id].reps > 0
              /\ flashcards[req[r].flashcard_id].state # "NEW"

\* a row is still NEW and unreviewed after a review of it failed to write
C12_Witness ==
    \E c \in Cards, r \in Requests :
        /\ flashcards[c].exists
        /\ flashcards[c].state = "NEW"
        /\ flashcards[c].reps = 0
        /\ req[r].pc = "error"
        /\ req[r].flashcard_id = c
        /\ req[r].response.error = "Failed to update flashcard"

\* scheduled_days of the candidate of grade g, from the row request q read
DaysOf(q, g) ==
    repeat(dbToCard(q.flashcard, q.reviewTime), q.reviewTime)[g].card.scheduled_days

Logging(r) == req[r].pc = "updated" /\ req'[r].pc = "done"

Settling == Len(deck'.calls) < Len(deck.calls)

\* C16: whenever a submitted rating is not recorded (the invoke settles with
\* an error or is rejected) the deck shows the learner an alert, on the
\* button/keyboard path and on the swipe path alike.
C16_DeckInformsLearner ==
    [][(Settling /\ deck'.settled.outcome \in {"error", "rejected"})
          => deck'.alerts = deck.alerts + 1]_vars

\* a step of a preview request
Previewing == due_req'.kind = "preview" /\ due_req' # due_req

Asked(v, dflt) == IF v = Absent THEN dflt ELSE v

NewIn(cards) == {i \in 1..Len(cards) : cards[i].row.state = "NEW"}

\* C18: a due-cards response holds only cards of the requesting user that are
\* not soft-deleted, each either non-New with due <= now or New; the non-New
\* cards come first in ascending due order, at most
\* min(new_cards_limit, limit - number of due cards) New cards follow, and the
\* total never exceeds limit
C18_DueCardsResponse ==
    (due_req.kind = "cards" /\ due_req.pc = "done") =>
        LET cards == due_req.flashcards
            limit == Asked(due_req.limit, DefaultLimit)
            new_cards_limit == Asked(due_req.new_cards_limit, DefaultNewCardsLimit)
            nDue == Len(cards) - Cardinality(NewIn(cards))
        IN  /\ \A i \in 1..Len(cards) :
                  /\ cards[i].row.user_id = due_req.caller
                  /\ ~cards[i].row.is_deleted
                  /\ i \notin NewIn(cards) =>
                        /\ cards[i].row.state # NullState
                        /\ cards[i].row.due # NoDate
                        /\ cards[i].row.due <= due_req.time
            /\ \A i, j \in 1..Len(cards) :
                  i < j =>
                      /\ i \in NewIn(cards) => j \in NewIn(cards)
                      /\ j \notin NewIn(cards) => cards[i].row.due <= cards[j].row.due
            /\ Cardinality(NewIn(cards)) <= Max(0, Min(new_cards_limit, limit - nDue))
            /\ Len(cards) <= limit

ShowsReviewCard ==
    /\ deck.currentIndex < Len(deck.flashcards)
    /\ ~isNewCard(currentCardOf(deck))

\* C25: a card that is not new leaves the deck, or has a rating taken for
\* it, only after its answer has been seen
C25_NoRemovalBeforeFlip ==
    [][(ShowsReviewCard /\ (\/ deck'.currentIndex # deck.currentIndex
                            \/ deck'.sent # deck.sent))
          => deck.hasSeenAnswer]_vars

\* C26: between showing a card and advancing to the next one the deck makes
\* at most one review request for that card
C26_OneRequestPerCard ==
    \A i, j \in 1..Len(deck.requested) :
        i # j => deck.requested[i] # deck.requested[j]

\* a preview request for a card of the caller has been answered
PreviewAnswered ==
    /\ due_req.kind = "preview"
    /\ due_req.pc \in {"done", "error"}
    /\ due_req.caller # "anonymous"
    /\ flashcards[due_req.flashcard_id].exists
    /\ flashcards[due_req.flashcard_id].user_id = due_req.caller

\* C27: in a preview response the entries again, hard, good and easy are the
\* repeat candidates for the ratings 1, 2, 3 and 4: each previewed interval is
\* the one a review with that rating selects from the same card at the same
\* time
C27_PreviewMatchesReview ==
    PreviewAnswered =>
        /\ due_req.pc = "done"
        /\ \A rating \in Grades :
              due_req.previews[rating - 1] =
                  repeat(dbToCard(flashcards[due_req.flashcard_id], due_req.time),
                         due_req.time)[tsfsrsRating(rating)].card.scheduled_days

\* the fields the columns keep as they are given
SameCounters(saved, loaded) ==
    /\ loaded.state = saved.state
    /\ loaded.reps = saved.reps
    /\ loaded.lapses = saved.lapses
    /\ loaded.due = saved.due
    /\ loaded.last_review = saved.last_review

\* C30: saving and loading a card is a round trip: the loaded card has the
\* state, stability, difficulty, reps, lapses, due and last_review of the card
\* the scheduler returned
C30_RoundTrip ==
    \A r \in Requests :
        req[r].pc = "reloaded" =>
            /\ SameCounters(req[r].updatedCard, req[r].currentCard)
            /\ req[r].currentCard.stability = req[r].updatedCard.stability
            /\ req[r].currentCard.difficulty = req[r].updatedCard.difficulty

\* C30, amended: the loaded card has the state, reps, lapses, due and
\* last_review of the saved card, and its stability and difficulty rounded
\* to the six places the columns keep
C30_RoundTripToColumnPrecision ==
    \A r \in Requests :
        req[r].pc = "reloaded" =>
            /\ SameCounters(req[r].updatedCard, req[r].currentCard)
            /\ req[r].currentCard.stability =
                  toDecimal(req[r].updatedCard.stability, LibrarySteps)
            /\ req[r].currentCard.difficulty =
                  toDecimal(req[r].updatedCard.difficulty, LibrarySteps)

\* a card in Relearning with places beyond the sixth has been saved and loaded
C30_Witness ==
    \E r \in Requests :
        /\ req[r].pc = "reloaded"
        /\ req[r].updatedCard.state = StateRelearning
        /\ req[r].updatedCard.stability % LibrarySteps # 0
        /\ req[r].currentCard.state = StateRelearning

(* ------------------- flashcard generation cron claims ------------------ *)
\* C21: at no time are two cron runs in status 'running', also when two
\* invocations start concurrently
C21_AtMostOneRunning ==
    Cardinality({i \in DOMAIN flashcard_cron_runs :
                    flashcard_cron_runs[i].status = "running"}) <= 1

\* the status of the processing record of a run for a chat, "" without one
statusOf(run, chat) ==
    IF \E x \in flashcard_chat_processing : x.cron_run_id = run /\ x.chat_id = chat
    THEN (CHOOSE x \in flashcard_chat_processing :
             x.cron_run_id = run /\ x.chat_id = chat).status
    ELSE ""

\* C22: a failure while processing one chat does not stop the run: after
\* every chat, failed or not, the loop is at the next eligible chat of the
\* same list, and after the last chat the run is at its final status update
C22_FailureDoesNotStopRun ==
    [][\A j \in Jobs :
          cron[j].pc = "processing" /\ cron'[j] # cron[j] =>
             /\ cron'[j].cronRunId = cron[j].cronRunId
             /\ cron'[j].eligibleChats = cron[j].eligibleChats
             /\ cron'[j].index = cron[j].index + 1
             /\ cron'[j].pc = IF cron[j].index < Len(cron[j].eligibleChats)
                              THEN "processing" ELSE "finishing"]_vars

\* a run is at its final status update after its first chat failed and its
\* second chat was processed
C22_Witness ==
    \E j \in Jobs :
        /\ cron[j].pc = "finishing"
        /\ Len(cron[j].eligibleChats) = 2
        /\ statusOf(cron[j].cronRunId, cron[j].eligibleChats[1]) = "failed"
        /\ statusOf(cron[j].cronRunId, cron[j].eligibleChats[2]) = "processed"

\* C23: when the generation failed for a chat of the run, the run is
\* recorded as 'failed' when its invocation returns
C23_FailureRecorded ==
    [][\A j \in Jobs :
          /\ cron[j].pc = "finishing"
          /\ cron[j].hasCriticalFailures
          /\ cron'[j].pc = "returned"
          => flashcard_cron_runs'[cron[j].cronRunId].status = "failed"]_vars

\* the runs that recorded a processed_up_to_timestamp and started last
lastRecordedRuns ==
    LET S == {i \in DOMAIN flashcard_cron_runs :
                 flashcard_cron_runs[i].processed_up_to_timestamp # NoDate}
    IN  {i \in S : \A m \in S :
            flashcard_cron_runs[m].start_time <= flashcard_cron_runs[i].start_time}

\* the chat was updated after what a last run recorded, or nothing is recorded
updatedSinceLastRun(k) ==
    \/ lastRecordedRuns = {}
    \/ \E i \in lastRecordedRuns :
          chats[k].updated_at > flashcard_cron_runs[i].processed_up_to_timestamp

\* the timestamp the run starts from is what a last run recorded, or is seven
\* days back
startsFromLastRun(j) ==
    \/ cron'[j].lastProcessedTimestamp = now - DefaultLookback
    \/ \E i \in lastRecordedRuns :
          cron'[j].lastProcessedTimestamp
             = flashcard_cron_runs[i].processed_up_to_timestamp

\* the chat has a failed processing record of the last 24 hours
failedLately(k) ==
    \E x \in flashcard_chat_processing :
        /\ x.chat_id = k
        /\ x.status = "failed"
        /\ now - x.processed_at < RetryWindow

\* the chats a step of a run selects
selectedBy(j) ==
    IF cron[j].pc = "created" /\ cron'[j].pc \in {"processing", "finishing"}
    THEN {cron'[j].eligibleChats[i] : i \in 1 .. Len(cron'[j].eligibleChats)}
    ELSE {}

C28_RunClosedOnReturn ==
    [][\A j \in Jobs :
          /\ cron[j].cronRunId # 0
          /\ cron'[j].pc = "returned"
          => flashcard_cron_runs'[cron[j].cronRunId].status
                \in {"completed", "failed"}]_vars

\* C29: an attempt leaves the record of the chat 'failed', 'processed' or
\* 'skipped'; a chat with a failed record of the last 24 hours is selected by
\* every run; an attempt that ends 'processed' or 'skipped' leaves no older
\* failed record of the chat
C29_FailedChatsRetried ==
    [][\A j \in Jobs :
          /\ cron[j].pc = "processing" /\ cron'[j] # cron[j] =>
                LET k == cron[j].eligibleChats[cron[j].index]
                IN  \E y \in flashcard_chat_processing' :
                        /\ y.cron_run_id = cron[j].cronRunId /\ y.chat_id = k
                        /\ y.status \in {"failed", "processed", "skipped"}
                        /\ y.status \in {"processed", "skipped"} =>
                              \A z \in flashcard_chat_processing' :
                                  ~(z.chat_id = k /\ z.status = "failed")
          /\ cron[j].pc = "created" /\ cron'[j].pc \in {"processing", "finishing"} =>
                \A k \in Chats : failedLately(k) => k \in selectedBy(j)]_vars
====
